---- MODULE Spec2Model ----
(***************************************************************************)
(* Model of olx_car_cover_scraper.py: the OLXCarCoverScraper class          *)
(* (get_page_content, parse_listing, scrape_listings, save_to_json,         *)
(* save_to_csv) and main().  The program is sequential; pc is the position  *)
(* of the single thread of control.  The network, the markup served and the *)
(* file system are the environment and are drawn nondeterministically.      *)
(* Text is a sequence of characters, a URL a sequence of string tokens.     *)
(***************************************************************************)
EXTENDS Naturals, Sequences, FiniteSets

(* ------------------------------ bounds --------------------------------- *)
\* largest max_pages argument of a direct call of scrape_listings
MaxPagesArg == 2
\* largest number of top-level elements in one served page
MaxNodes == 2

(* ------------------------- program constants --------------------------- *)
\* main(): scraper.scrape_listings(max_pages=3)
MainMaxPages == 3
\* time.sleep(2)
SleepDelay == 2

\* the sentinel 'N/A'
NA == <<"N", "/", "A">>

\* self.base_url = "https://www.olx.in"
base_url == <<"https:", "//", "www.olx.in">>
\* self.search_url = "https://www.olx.in/items/q-car-cover"
search_url == <<"https:", "//", "www.olx.in", "/", "items", "/", "q-car-cover">>

(* ----------------------------- helpers --------------------------------- *)
\* Python's optional values: None, or a value
None == [some |-> FALSE]
Some(v) == [some |-> TRUE, val |-> v]

\* str(page) in the f-string of line 91
Digits == <<"1", "2", "3", "4", "5", "6", "7", "8", "9">>

IsSpace(c) == c \in {" ", "\n", "\t"}

RECURSIVE LStrip(_)
LStrip(s) == IF s # <<>> /\ IsSpace(Head(s)) THEN LStrip(Tail(s)) ELSE s

RECURSIVE RStrip(_)
RStrip(s) == IF s # <<>> /\ IsSpace(s[Len(s)]) THEN RStrip(SubSeq(s, 1, Len(s) - 1)) ELSE s

\* elem.get_text(strip=True) of an element holding one text string
get_text(elem) == RStrip(LStrip(elem.text))

\* index of the last "/" token of a path, 0 when there is none
RECURSIVE LastSlash(_, _)
LastSlash(path, k) ==
    IF k = 0 THEN 0 ELSE IF path[k] = "/" THEN k ELSE LastSlash(path, k - 1)

\* urllib.parse.urljoin(base, href), base being scheme, "//", host, path...
urljoin(base, href) ==
    LET authority == SubSeq(base, 1, 3)
        path      == SubSeq(base, 4, Len(base))
        dir       == IF LastSlash(path, Len(path)) = 0 THEN <<"/">>
                     ELSE SubSeq(path, 1, LastSlash(path, Len(path)))
    IN  IF href = <<>> THEN base
        ELSE IF Head(href) \in {"http:", "https:"} THEN href
        ELSE IF Head(href) = "//" THEN <<Head(base)>> \o href
        ELSE IF Head(href) = "/" THEN authority \o href
        ELSE authority \o dir \o href

\* the url of a page index, scrape_listings lines 88-91
PageUrl(p) ==
    IF p = 1 THEN search_url
    ELSE search_url \o <<"?", "page", "=", Digits[p]>>

\* Tag.find: the first of the matching children, or None
FirstOf(matches) == IF matches = <<>> THEN None ELSE Some(Head(matches))

\* listing_element.find('span', {'data-aut-id': autid})
FindSpan(element, autid) ==
    LET M(c) == c.tag = "span" /\ c.autid = autid
    IN  FirstOf(SelectSeq(element.children, M))

\* listing_element.find('a', href=True)
FindLink(element) ==
    LET M(c) == c.tag = "a" /\ c.href.some
    IN  FirstOf(SelectSeq(element.children, M))

\* mutant of TextOrNA: an absent child gives the empty string
TextOrEmpty(elem) == IF elem.some THEN get_text(elem.val) ELSE <<>>

\* "<x>.get_text(strip=True) if <x> else 'N/A'"; a Tag is always truthy
TextOrNA(elem) == IF elem.some THEN get_text(elem.val) ELSE NA

(* --------------------------- parse_listing ----------------------------- *)
\* the keys of listing_data, in insertion order
KeyOrder == <<"title", "price", "location", "link", "date", "description">>

\* the body of the try block, lines 47-76
ParseFields(element) ==
    [title       |-> TextOrNA(FindSpan(element, "itemTitle")),
     price       |-> TextOrNA(FindSpan(element, "itemPrice")),
     location    |-> TextOrNA(FindSpan(element, "item-location")),
     link        |-> LET link_elem == FindLink(element)
                     IN  IF link_elem.some
                         THEN urljoin(base_url, link_elem.val.href.val)
                         ELSE NA,
     date        |-> TextOrNA(FindSpan(element, "itemDate")),
     description |-> TextOrNA(FindSpan(element, "itemDescription"))]

\* mutant of parse_listing: no except clause, the exception leaves the call
parse_listing_uncaught(element) ==
    IF element.raises
    THEN [raised |-> TRUE, logged |-> FALSE, ret |-> None]
    ELSE [raised |-> FALSE, logged |-> FALSE, ret |-> Some(ParseFields(element))]

\* parse_listing: raised is whether an exception leaves the call, ret the value
\* returned (the record, or None from the except clause of lines 77-79)
parse_listing(element) ==
    IF element.raises
    THEN [raised |-> FALSE, logged |-> TRUE, ret |-> None]
    ELSE [raised |-> FALSE, logged |-> FALSE, ret |-> Some(ParseFields(element))]

(* ------------------------- the markup served --------------------------- *)
Span(autid, text) == [tag |-> "span", autid |-> autid, text |-> text, href |-> None]
Anchor(href)      == [tag |-> "a", autid |-> "", text |-> <<>>, href |-> Some(href)]
Div(autid, class, raises, children) ==
    [tag |-> "div", autid |-> autid, class |-> class, raises |-> raises,
     children |-> children]

\* one child per field, in document order
FieldChildren ==
    <<Span("itemTitle", <<" ", "A", " ">>), Span("itemPrice", <<"9">>),
      Span("item-location", <<"G", "o", "a">>), Anchor(<<"/", "item", "/", "1">>),
      Span("itemDate", <<"T", "o", "d", "a", "y", "\n">>), Span("itemDescription", <<>>)>>

\* the field a child of FieldChildren feeds
FieldOf(k) == KeyOrder[k]

RECURSIVE ChildrenFor(_, _)
ChildrenFor(fields, k) ==
    IF k > Len(FieldChildren) THEN <<>>
    ELSE (IF FieldOf(k) \in fields THEN <<FieldChildren[k]>> ELSE <<>>)
         \o ChildrenFor(fields, k + 1)

\* every listing card over the six fields, well-formed or raising on access
AllNodes ==
    { Div("itemBox", <<>>, r, ChildrenFor(fs, 1)) :
        fs \in SUBSET {"title", "price", "location", "link", "date", "description"},
        r \in BOOLEAN }

ListingA == Div("itemBox", <<>>, FALSE, FieldChildren)
ListingB == Div("itemBox", <<"c", "a", "r", "d">>, FALSE,
                <<Span("itemTitle", <<"B">>), Span("item-location", <<"P", "u", "n", "e">>),
                  Anchor(<<"item", "/", "2">>)>>)
TitleNA  == Div("itemBox", <<>>, FALSE, <<Span("itemTitle", <<"N", "/", "A", " ">>)>>)
Broken   == Div("itemBox", <<>>, TRUE, <<Span("itemTitle", <<"X">>)>>)
CardC    == Div("", <<"i", "t", "e", "m", "-", "c">>, FALSE,
                <<Span("itemTitle", <<"C">>), Anchor(<<"https:", "//", "olx.in", "/", "c">>)>>)
Banner   == Div("", <<"a", "d", "I", "T", "E", "M">>, FALSE, <<Anchor(<<>>)>>)
Plain    == Div("", <<"n", "a", "v">>, FALSE, <<>>)

\* the listing cards a served page is made of: two listings and a card whose
\* extraction raises
Elements == {ListingA, ListingB, Broken}

RECURSIVE SeqsUpTo(_, _)
SeqsUpTo(S, n) ==
    IF n = 0 THEN {<<>>}
    ELSE LET shorter == SeqsUpTo(S, n - 1)
         IN  shorter \cup {Append(s, e) : s \in {t \in shorter : Len(t) = n - 1}, e \in S}

\* pages that also hold markup no selector matches, nodes only the fallback
\* selector matches (a card and an advertisement without a title), and a
\* listing whose title text is the sentinel itself
MixedBodies ==
    {<<Plain>>, <<Banner>>, <<CardC, Plain, Banner>>, <<TitleNA, Plain, ListingA>>,
     <<Banner, ListingB>>}

\* what session.get + raise_for_status can produce: an exception, or the
\* response body (b'' is the empty sequence)
Responses ==
    {None} \cup {Some(b) : b \in SeqsUpTo(Elements, MaxNodes) \cup MixedBodies}

(* ----------------------------- selectors ------------------------------- *)
Lower(c) ==
    CASE c = "I" -> "i" [] c = "T" -> "t" [] c = "E" -> "e" [] c = "M" -> "m"
      [] OTHER -> c

\* re.compile(r'.*item.*', re.I) against a class value
RECURSIVE ClassMatches(_, _)
ClassMatches(class, k) ==
    IF k + 3 > Len(class) THEN FALSE
    ELSE IF <<Lower(class[k]), Lower(class[k + 1]), Lower(class[k + 2]), Lower(class[k + 3])>>
            = <<"i", "t", "e", "m">> THEN TRUE
    ELSE ClassMatches(class, k + 1)

\* soup.find_all('div', {'data-aut-id': 'itemBox'})
PrimarySelect(body) ==
    LET M(e) == e.tag = "div" /\ e.autid = "itemBox" IN SelectSeq(body, M)

\* soup.find_all('div', class_=re.compile(r'.*item.*', re.I))
FallbackSelect(body) ==
    LET M(e) == e.tag = "div" /\ ClassMatches(e.class, 1) IN SelectSeq(body, M)

\* lines 101-105: the primary selector, then the fallback when it found nothing
FindListings(body) ==
    IF PrimarySelect(body) # <<>> THEN PrimarySelect(body) ELSE FallbackSelect(body)

(* ------------------------------- state --------------------------------- *)
VARIABLES
    pc,             \* position of the thread of control
    caller,         \* "main", or "direct" for a call of one method
    max_pages,      \* scrape_listings: the argument
    page,           \* scrape_listings: the loop variable
    content,        \* scrape_listings: what get_page_content returned
    listings,       \* scrape_listings: the candidate nodes of the page
    idx,            \* scrape_listings: position of the for loop of line 113
    parsed_listing, \* what parse_listing returned last
    all_listings,   \* scrape_listings: the running collection
    result,         \* main: the list scrape_listings returned
    files,          \* the two output files
    log,            \* logger calls, the requests sent and the sleeps, in order
    expected        \* history: the records the pages served so far call for

vars == <<pc, caller, max_pages, page, content, listings, idx, parsed_listing,
          all_listings, result, files, log, expected>>

Event(ev, arg) == [ev |-> ev, arg |-> arg]

NoFile == [exists |-> FALSE, complete |-> FALSE, data |-> <<>>]

Init ==
    /\ pc = "idle"
    /\ caller = "none"
    /\ max_pages = 0
    /\ page = 0
    /\ content = None
    /\ listings = <<>>
    /\ idx = 0
    /\ parsed_listing = None
    /\ all_listings = <<>>
    /\ result = <<>>
    /\ files = [json |-> NoFile, csv |-> NoFile]
    /\ log = <<>>
    /\ expected = <<>>

(* -------------------------- scrape_listings ---------------------------- *)
\* "for page in range(1, max_pages + 1)": where control goes for index p
LoopHead(p, m) == IF p <= m THEN "fetch" ELSE "return"

\* mutant of AfterFetchFailure: a failed fetch breaks out of the loop
AfterFetchFailureBreak(p, m) == [page |-> p, pc |-> "return"]

\* the continue of line 96: on to the next page index
AfterFetchFailure(p, m) == [page |-> p + 1, pc |-> LoopHead(p + 1, m)]

\* the break of line 109: out of the loop
AfterNoListings(p, m) == [page |-> p, pc |-> "return"]

\* the end of the loop body, lines 118-119: sleep, then the next page index
AfterPage(p, m) == [page |-> p + 1, pc |-> LoopHead(p + 1, m)]

\* line 94, "if not content": None and b'' are both falsy
NotContent(c) == ~c.some \/ c.val = <<>>

\* mutant of Retained: the title is not looked at
RetainedAnyTitle(parsed) == parsed.some

\* line 115: "parsed_listing and parsed_listing['title'] != 'N/A'"
Retained(parsed) == parsed.some /\ parsed.val.title # NA

\* mutant of AppendListing: all_listings.insert(0, parsed_listing)
PrependListing(all, rec) == <<rec>> \o all

\* line 116: all_listings.append(parsed_listing)
AppendListing(all, rec) == Append(all, rec)

\* get_page_content: the value returned and the lines logged
get_page_content(url, resp) ==
    IF resp.some
    THEN [ret |-> resp, logged |-> <<>>]
    ELSE [ret |-> None, logged |-> <<Event("error_fetch", url)>>]

\* the records a served page calls for: those of its candidate nodes, in node
\* order, whose extraction gives a title other than the sentinel
RECURSIVE PageRecords(_)
PageRecords(nodes) ==
    IF nodes = <<>> THEN <<>>
    ELSE LET r == IF Head(nodes).raises THEN None ELSE Some(ParseFields(Head(nodes)))
         IN  (IF r.some /\ r.val.title # NA THEN <<r.val>> ELSE <<>>)
             \o PageRecords(Tail(nodes))

Contribution(resp) ==
    IF resp.some /\ FindListings(resp.val) # <<>>
    THEN PageRecords(FindListings(resp.val)) ELSE <<>>

\* history: what the site answered to the request of page p, and whether the
\* two selectors find a candidate node in the answer
Answer(p, resp) ==
    [ev |-> "response", arg |-> p, ok |-> resp.some,
     candidates |-> resp.some /\ FindListings(resp.val) # <<>>]

\* scrape_listings entered: line 83 and the first test of the loop
EnterScrape(who, m) ==
    /\ caller' = who
    /\ max_pages' = m
    /\ all_listings' = <<>>
    /\ page' = 1
    /\ pc' = LoopHead(1, m)
    /\ UNCHANGED <<content, listings, idx, parsed_listing, result, files, expected>>

\* main(), lines 150-156
CallMain ==
    /\ pc = "idle"
    /\ log' = Append(log, Event("info_start", 0))
    /\ EnterScrape("main", MainMaxPages)

\* a direct call scrape_listings(max_pages=m)
CallScrape ==
    /\ pc = "idle"
    /\ \E m \in 1..MaxPagesArg : EnterScrape("direct", m)
    /\ UNCHANGED log

\* lines 86-96: the request of one page, and the skip when nothing came back
FetchPage ==
    /\ pc = "fetch"
    /\ \E resp \in Responses :
         LET got  == get_page_content(PageUrl(page), resp)
             sent == <<Event("info_scraping", page), Event("request", page),
                       Answer(page, resp)>> \o got.logged
             next == AfterFetchFailure(page, max_pages)
         IN  /\ content' = got.ret
             /\ expected' = expected \o Contribution(resp)
             /\ IF NotContent(got.ret)
                THEN /\ log' = log \o sent \o <<Event("warn_failed", page)>>
                     /\ page' = next.page
                     /\ pc' = next.pc
                ELSE /\ log' = log \o sent
                     /\ pc' = "discover"
                     /\ UNCHANGED page
    /\ UNCHANGED <<caller, max_pages, listings, idx, parsed_listing, all_listings,
                   result, files>>

\* lines 98-111: node discovery, and the break when it finds nothing
Discover ==
    /\ pc = "discover"
    /\ LET found == FindListings(content.val)
           next  == AfterNoListings(page, max_pages)
       IN  /\ listings' = found
           /\ IF found = <<>>
              THEN /\ log' = Append(log, Event("warn_nolistings", page))
                   /\ page' = next.page
                   /\ pc' = next.pc
                   /\ UNCHANGED idx
              ELSE /\ log' = Append(log, Event("info_found", page))
                   /\ idx' = 1
                   /\ pc' = "parse"
                   /\ UNCHANGED page
    /\ UNCHANGED <<caller, max_pages, content, parsed_listing, all_listings, result,
                   files, expected>>

\* lines 113-116: one iteration of the for loop over the candidate nodes
ParseNode ==
    /\ pc = "parse"
    /\ LET got == parse_listing(listings[idx])
       IN  IF got.raised
           THEN \* the exception leaves scrape_listings; main catches it at line 181
                /\ pc' = "done"
                /\ log' = IF caller = "main" THEN Append(log, Event("error_main", page))
                          ELSE Append(log, Event("uncaught", page))
                /\ UNCHANGED <<idx, parsed_listing, all_listings>>
           ELSE /\ parsed_listing' = got.ret
                /\ log' = IF got.logged THEN Append(log, Event("error_parse", page)) ELSE log
                /\ all_listings' = IF Retained(got.ret)
                                   THEN AppendListing(all_listings, got.ret.val)
                                   ELSE all_listings
                /\ idx' = idx + 1
                /\ pc' = IF idx + 1 > Len(listings) THEN "sleep" ELSE "parse"
    /\ UNCHANGED <<caller, max_pages, page, content, listings, result, files, expected>>

\* lines 118-119 and the return to the head of the loop
Sleep ==
    /\ pc = "sleep"
    /\ LET next == AfterPage(page, max_pages)
       IN  /\ log' = Append(log, [ev |-> "sleep", arg |-> page, secs |-> SleepDelay])
           /\ page' = next.page
           /\ pc' = next.pc
    /\ UNCHANGED <<caller, max_pages, content, listings, idx, parsed_listing,
                   all_listings, result, files, expected>>

(* ------------------------ save_to_json / save_to_csv ------------------- *)
\* what the file system does to one save
IoOutcomes == {"ok", "open_fails", "write_fails"}

\* json.dump(listings, ...): an array of objects, the keys in insertion order
JsonDump(ls) ==
    [i \in 1..Len(ls) |-> [k \in 1..Len(KeyOrder) |-> <<KeyOrder[k], ls[i][KeyOrder[k]]>>]]

\* csv.DictWriter: writeheader() and writerows(listings), the columns being
\* fieldnames = listings[0].keys()
CsvRows(ls) ==
    <<KeyOrder>> \o [i \in 1..Len(ls) |-> [k \in 1..Len(KeyOrder) |-> ls[i][KeyOrder[k]]]]

\* open(filename, 'w') and the writes under it: the file after the attempt
WriteFile(old, data, io) ==
    CASE io = "ok"          -> [exists |-> TRUE, complete |-> TRUE, data |-> data]
      [] io = "write_fails" -> [exists |-> TRUE, complete |-> FALSE, data |-> <<>>]
      [] io = "open_fails"  -> old

\* mutant of save_to_json: no except clause, an I/O failure leaves the call
save_to_json_uncaught(ls, fs, io) ==
    [files  |-> [fs EXCEPT !.json = WriteFile(fs.json, JsonDump(ls), io)],
     logged |-> IF io = "ok" THEN <<Event("info_saved_json", Len(ls))>> ELSE <<>>,
     raised |-> io # "ok"]

\* save_to_json, lines 123-130
save_to_json(ls, fs, io) ==
    [files  |-> [fs EXCEPT !.json = WriteFile(fs.json, JsonDump(ls), io)],
     logged |-> IF io = "ok" THEN <<Event("info_saved_json", Len(ls))>>
                ELSE <<Event("error_json", 0)>>,
     raised |-> FALSE]

\* save_to_csv, lines 132-146
save_to_csv(ls, fs, io) ==
    IF ls = <<>>
    THEN [files |-> fs, logged |-> <<Event("warn_nothing_to_save", 0)>>, raised |-> FALSE]
    ELSE [files  |-> [fs EXCEPT !.csv = WriteFile(fs.csv, CsvRows(ls), io)],
          logged |-> IF io = "ok" THEN <<Event("info_saved_csv", Len(ls))>>
                     ELSE <<Event("error_csv", 0)>>,
          raised |-> FALSE]

(* -------------------------------- main --------------------------------- *)
\* line 158, "if listings:": the branch main takes with the list returned
MainBranch(ls) == IF ls # <<>> THEN "save_json" ELSE "no_listings"

\* line 121, where the locals of scrape_listings end, and in main lines
\* 156-159 and 178-179
Return ==
    /\ pc = "return"
    /\ result' = all_listings
    /\ IF caller = "main"
       THEN IF MainBranch(all_listings) = "save_json"
            THEN /\ log' = Append(log, Event("info_scraped", Len(all_listings)))
                 /\ pc' = "save_json"
            ELSE /\ log' = Append(log, Event("warn_no_listings_found", 0))
                 /\ pc' = "done"
       ELSE /\ pc' = "done"
            /\ UNCHANGED log
    /\ content' = None
    /\ listings' = <<>>
    /\ idx' = 0
    /\ parsed_listing' = None
    /\ UNCHANGED <<caller, max_pages, page, all_listings, files, expected>>

\* one save called from main: an exception leaving it reaches line 181
MainSave(got, nextpc) ==
    /\ files' = got.files
    /\ IF got.raised
       THEN /\ log' = log \o got.logged \o <<Event("error_main", 0)>>
            /\ pc' = "done"
       ELSE /\ log' = log \o got.logged
            /\ pc' = nextpc

\* line 162
SaveJson ==
    /\ pc = "save_json"
    /\ \E io \in IoOutcomes :
         MainSave(save_to_json(result, files, io), "save_csv")
    /\ UNCHANGED <<caller, max_pages, page, content, listings, idx, parsed_listing,
                   all_listings, result, expected>>

\* line 163
SaveCsv ==
    /\ pc = "save_csv"
    /\ \E io \in IoOutcomes :
         MainSave(save_to_csv(result, files, io), "summary")
    /\ UNCHANGED <<caller, max_pages, page, content, listings, idx, parsed_listing,
                   all_listings, result, expected>>

\* lines 165-177: the summary and the first three listings
Summary ==
    /\ pc = "summary"
    /\ log' = Append(log, Event("print_summary",
                                IF Len(result) < 3 THEN Len(result) ELSE 3))
    /\ pc' = "done"
    /\ UNCHANGED <<caller, max_pages, page, content, listings, idx, parsed_listing,
                   all_listings, result, files, expected>>

(* ----------------------- direct calls of the methods ------------------- *)
\* the lists a caller hands to a save: the empty list and short lists
SaveArguments == {<<>>, PageRecords(<<ListingA>>), PageRecords(<<ListingB, ListingA>>)}

\* a direct call save_to_json(ls) or save_to_csv(ls)
CallSave ==
    /\ pc = "idle"
    /\ \E ls \in SaveArguments, io \in IoOutcomes, fmt \in {"json", "csv"} :
         LET got == IF fmt = "json" THEN save_to_json(ls, files, io)
                    ELSE save_to_csv(ls, files, io)
         IN  /\ result' = ls
             /\ files' = got.files
             /\ log' = log \o <<Event("call_save_" \o fmt, Len(ls))>> \o got.logged
                       \o (IF got.raised THEN <<Event("uncaught", 0)>> ELSE <<>>)
    /\ caller' = "direct_save"
    /\ pc' = "done"
    /\ UNCHANGED <<max_pages, page, content, listings, idx, parsed_listing,
                   all_listings, expected>>

\* a direct call parse_listing(node)
CallParse ==
    /\ pc = "idle"
    /\ \E node \in AllNodes \cup Elements \cup {TitleNA, CardC, Banner, Plain} :
         LET got == parse_listing(node)
         IN  /\ listings' = <<node>>
             /\ parsed_listing' = got.ret
             /\ log' = (IF got.logged THEN <<Event("error_parse", 0)>> ELSE <<>>)
                       \o (IF got.raised THEN <<Event("uncaught", 0)>> ELSE <<>>)
    /\ caller' = "direct_parse"
    /\ pc' = "done"
    /\ UNCHANGED <<max_pages, page, content, idx, all_listings, result, files, expected>>

Next ==
    \/ CallMain
    \/ CallScrape
    \/ FetchPage
    \/ Discover
    \/ ParseNode
    \/ Sleep
    \/ Return
    \/ SaveJson
    \/ SaveCsv
    \/ Summary
    \/ CallSave
    \/ CallParse

Spec == Init /\ [][Next]_vars

(* ============================ properties =============================== *)
Logged(ev, arg) == \E i \in 1..Len(log) : log[i].ev = ev /\ log[i].arg = arg
LoggedAny(ev)   == \E i \in 1..Len(log) : log[i].ev = ev

\* the page indices requested, in the order of the requests
RequestedPages ==
    LET R == SelectSeq(log, LAMBDA e : e.ev = "request")
    IN  [i \in 1..Len(R) |-> R[i].arg]

InScrape  == caller \in {"main", "direct"}
InLoop    == InScrape /\ pc \in {"fetch", "discover", "parse", "sleep"}
LoopEnded == InScrape /\ pc \notin {"fetch", "discover", "parse", "sleep"}

IsPrefix(s, t) == Len(s) <= Len(t) /\ SubSeq(t, 1, Len(s)) = s
IsSuffix(s, t) == Len(s) <= Len(t) /\ SubSeq(t, Len(t) - Len(s) + 1, Len(t)) = s

\* C1 (as claimed): once a page has been fetched and holds no candidate node
\* under the primary selector and under the fallback selector, no request is
\* sent for any later page index of that run.
C1_EarlyTermination ==
    \A i \in 1..Len(log) :
        (log[i].ev = "response" /\ log[i].ok /\ ~log[i].candidates) =>
            \A j \in (i + 1)..Len(log) : log[j].ev # "request"

\* C2: the page indices are requested in increasing order from 1, each once; a
\* failed fetch of page k < max_pages is followed by the request of page k+1;
\* and a loop that has ended has requested max_pages pages unless discovery
\* failed on a page.
C2_FetchFailureContinues ==
    /\ InScrape =>
         /\ Len(RequestedPages) <= max_pages
         /\ \A i \in 1..Len(RequestedPages) : RequestedPages[i] = i
    /\ LoopEnded =>
         /\ \A k \in 1..(max_pages - 1) :
              (Logged("error_fetch", PageUrl(k)) \/ Logged("warn_failed", k))
                  => Logged("request", k + 1)
         /\ Len(RequestedPages) = max_pages \/ LoggedAny("warn_nolistings")

C2_Witness ==
    /\ LoopEnded
    /\ Logged("error_fetch", PageUrl(1))
    /\ Logged("request", 2)
    /\ Logged("error_fetch", PageUrl(max_pages))
    /\ Len(RequestedPages) = max_pages

\* C3 (as claimed): when page 1 has no candidate node, a finished run of main
\* has an empty collection, has fetched page 1 only, has skipped the CSV save
\* with its warning and has performed the JSON save.
C3_EmptyRunStillSavesJson ==
    (pc = "done" /\ caller = "main" /\ Logged("warn_nolistings", 1)) =>
        /\ result = <<>>
        /\ RequestedPages = <<1>>
        /\ LoggedAny("warn_nothing_to_save")
        /\ LoggedAny("info_saved_json") \/ LoggedAny("error_json")

\* C4: every record of the running collection has a title other than 'N/A',
\* and a node whose extraction gave the title 'N/A' or gave None is not
\* appended.
C4_TitleInvariant ==
    /\ [](\A i \in 1..Len(all_listings) : all_listings[i].title # NA)
    /\ [][(pc = "parse" /\ (~parsed_listing'.some \/ parsed_listing'.val.title = NA))
            => all_listings' = all_listings]_vars

C4_Witness ==
    /\ pc = "sleep"
    /\ parsed_listing.some
    /\ parsed_listing.val.title = NA
    /\ all_listings # <<>>

\* C5 (as claimed): a sleep lies between any two consecutive requests, and a
\* loop that has ended after requesting page max_pages has slept after it.
C5_SleepBetweenRequests ==
    /\ \A i, j \in 1..Len(log) :
         (i < j /\ log[i].ev = "request" /\ log[j].ev = "request")
             => \E s \in (i + 1)..(j - 1) : log[s].ev = "sleep"
    /\ (LoopEnded /\ Logged("request", max_pages)) => Logged("sleep", max_pages)

\* C6 (as claimed): the loop skips page k as a failed fetch exactly when
\* get_page_content failed for page k.
C6_SkipOnlyOnFetchFailure ==
    \A k \in 1..max_pages :
        Logged("warn_failed", k) <=> Logged("error_fetch", PageUrl(k))

\* C7: the collection is a prefix of the records the pages served call for
\* (page order, node order, the candidate nodes with a title other than 'N/A'
\* of the pages fetched and discovered), it is all of them when the loop has
\* ended, and a step only appends to it.
C7_Collection ==
    /\ [](InScrape => IsPrefix(all_listings, expected))
    /\ [](LoopEnded => all_listings = expected)
    /\ []((LoopEnded /\ pc # "return") => result = expected)
    /\ [][IsPrefix(all_listings, all_listings')]_vars

C7_Witness ==
    /\ pc = "done"
    /\ caller = "main"
    /\ Len(result) = 3
    /\ result[1] # result[2]
    /\ Logged("warn_failed", 2)
    /\ Logged("sleep", 3)

\* the node parse_listing was last applied to
ParsedNode == IF caller = "direct_parse" THEN listings[1] ELSE listings[idx - 1]
HasParsed ==
    \/ caller = "direct_parse"
    \/ InScrape /\ pc \in {"parse", "sleep"} /\ idx > 1

HasSpan(node, autid) ==
    \E k \in 1..Len(node.children) :
        node.children[k].tag = "span" /\ node.children[k].autid = autid
HasLink(node) ==
    \E k \in 1..Len(node.children) :
        node.children[k].tag = "a" /\ node.children[k].href.some

\* C8: a record parse_listing returns has the six keys, and each field whose
\* marker child is absent from the node is 'N/A'.
C8_Sentinel ==
    (HasParsed /\ parsed_listing.some) =>
        LET rec == parsed_listing.val
            node == ParsedNode
        IN  /\ DOMAIN rec = {"title", "price", "location", "link", "date", "description"}
            /\ ~HasSpan(node, "itemTitle") => rec.title = NA
            /\ ~HasSpan(node, "itemPrice") => rec.price = NA
            /\ ~HasSpan(node, "item-location") => rec.location = NA
            /\ ~HasLink(node) => rec.link = NA
            /\ ~HasSpan(node, "itemDate") => rec.date = NA
            /\ ~HasSpan(node, "itemDescription") => rec.description = NA

C8_Witness ==
    /\ caller = "direct_parse"
    /\ parsed_listing.some
    /\ HasSpan(ParsedNode, "itemTitle")
    /\ ~HasSpan(ParsedNode, "itemPrice")
    /\ ~HasLink(ParsedNode)
    /\ parsed_listing.val.title # NA
    /\ parsed_listing.val.price = NA
    /\ parsed_listing.val.link = NA

JsonAttempted == LoggedAny("info_saved_json") \/ LoggedAny("error_json")
CsvAttempted  == LoggedAny("info_saved_csv") \/ LoggedAny("error_csv")

\* C9: a finished run of main with a non-empty collection has attempted both
\* saves and printed its summary whatever failed; a failed JSON write is
\* logged; the CSV save leaves the JSON file as it was; and no exception
\* leaves a save or reaches the handler of main.
C9_SaveIsolation ==
    /\ []((pc = "done" /\ caller = "main" /\ result # <<>>) =>
            /\ JsonAttempted
            /\ CsvAttempted
            /\ LoggedAny("print_summary")
            /\ ~files.json.complete => LoggedAny("error_json")
            /\ ~files.csv.complete => LoggedAny("error_csv"))
    /\ [](~LoggedAny("error_main") /\ ~LoggedAny("uncaught"))
    /\ [][pc = "save_csv" => files'.json = files.json]_vars

C9_Witness ==
    /\ pc = "done"
    /\ caller = "main"
    /\ LoggedAny("error_json")
    /\ LoggedAny("info_saved_csv")
    /\ files.csv.complete
    /\ ~files.json.complete

\* C10: a node whose extraction fails adds no record, the other nodes of the
\* page are extracted and appended in order, and the page ends with the sleep
\* like any other page.
C10_NodeIsolation ==
    /\ (InScrape /\ pc \in {"parse", "sleep"}) =>
          IsSuffix(PageRecords(SubSeq(listings, 1, idx - 1)), all_listings)
    /\ InScrape =>
          \A k \in 1..max_pages :
              (Logged("info_found", k) /\ ~(pc \in {"parse", "sleep"} /\ page = k))
                  => /\ Logged("sleep", k)
                     /\ k < max_pages => (Logged("request", k + 1) \/ (pc = "fetch" /\ page = k + 1))

C10_Witness ==
    /\ InScrape
    /\ pc = "discover"
    /\ page >= 2
    /\ Logged("error_parse", page - 1)
    /\ Len(listings) = 2
    /\ listings[1].raises
    /\ ~listings[2].raises
    /\ all_listings # <<>>
    /\ all_listings[Len(all_listings)] = ParseFields(listings[2])
====
